---- MODULE Spec2Model ----
(***************************************************************************)
(* Model of src/winrtble/ble/device.rs: the BLEDevice wrapper around a     *)
(* WinRT BluetoothLEDevice and its GattSession.                            *)
(*                                                                         *)
(* The platform (WinRT) is the environment: every platform call may fail,  *)
(* connection status and MaxPduSize change spontaneously, and registered   *)
(* handlers are run for queued notifications.  Every step records the      *)
(* operation it belongs to (op), the platform calls and consumer callbacks *)
(* it made in order (calls), what it returned (ret) and, for an            *)
(* enumeration, what the platform answered (enum).                         *)
(***************************************************************************)
EXTENDS Integers, Sequences, FiniteSets

\* ------------------------------------------------------------------ bounds

\* An enumeration of services returns at most MaxLen handles.
MaxLen == 2
\* At most MaxPending undelivered notifications per event source.
MaxPending == 1

\* Service / characteristic / descriptor handles.
Handles == 1..MaxLen

RECURSIVE SeqsUpTo(_)
SeqsUpTo(n) ==
    IF n = 0 THEN {<<>>}
    ELSE LET shorter == SeqsUpTo(n - 1)
         IN shorter \cup
            {Append(s, h) : s \in {t \in shorter : Len(t) = n - 1}, h \in Handles}

Distinct(s) == \A i, j \in 1..Len(s) : i # j => s[i] # s[j]

\* The service lists an enumeration can return: up to MaxLen distinct handles, in
\* any order.
Lists == {s \in SeqsUpTo(MaxLen) : Distinct(s)}

\* The lists of the enumerations whose list the device never keeps.
ShortLists == {<<>>, <<1>>}

\* Values of the session's MaxPduSize (u16): the BLE default and a negotiated one.
PduSizes == {23, 247}

\* ------------------------------------------------------------ vocabulary

\* BluetoothConnectionStatus
ConnectionStatuses == {"Disconnected", "Connected"}

\* GattCommunicationStatus
GattStatuses == {"Success", "Unreachable", "ProtocolError", "AccessDenied"}

\* One platform call or consumer callback made by a step.
Call(name, mode, arg, ok) == [name |-> name, mode |-> mode, arg |-> arg, ok |-> ok]

\* What an operation returned: tag is None (nothing returned yet), Ok, Err or Panic.
NoRet == [tag |-> "None", err |-> "-", list |-> <<>>, flag |-> FALSE]
OkUnit == [tag |-> "Ok", err |-> "-", list |-> <<>>, flag |-> FALSE]
OkBool(b) == [tag |-> "Ok", err |-> "-", list |-> <<>>, flag |-> b]
OkList(l) == [tag |-> "Ok", err |-> "-", list |-> l, flag |-> FALSE]
Err(kind) == [tag |-> "Err", err |-> kind, list |-> <<>>, flag |-> FALSE]
Panic == [tag |-> "Panic", err |-> "-", list |-> <<>>, flag |-> FALSE]

\* What the platform answers to one Get...WithCacheModeAsync enumeration: whether
\* the call, its completion, the Status() read and the list read succeed, and the
\* status and list the result object holds.
NoEnum ==
    [callOk |-> FALSE, awaitOk |-> FALSE, statusOk |-> FALSE,
     status |-> "Unreachable", listOk |-> FALSE, list |-> <<>>]

EnumResult(status, listOk, list) ==
    [callOk |-> TRUE, awaitOk |-> TRUE, statusOk |-> TRUE,
     status |-> status, listOk |-> listOk, list |-> list]

\* The call fails; its completion fails; the Status() read fails.
EnumFailures ==
    {NoEnum,
     [NoEnum EXCEPT !.callOk = TRUE],
     [NoEnum EXCEPT !.callOk = TRUE, !.awaitOk = TRUE]}

\* The answers to an enumeration whose Success list is drawn from lists: a
\* failure, a Success whose list cannot be read, or a status with a list.
EnumOutcomes(lists) ==
    EnumFailures
    \cup {EnumResult("Success", FALSE, <<>>)}
    \cup {EnumResult("Success", TRUE, l) : l \in lists}
    \cup {EnumResult(st, TRUE, l) : st \in GattStatuses \ {"Success"}, l \in ShortLists}

\* The answers to an enumeration of services in Cached mode, and to the others.
ServiceOutcomes == EnumOutcomes(Lists)
ChildOutcomes == EnumOutcomes(ShortLists)

\* ------------------------------------------------------------------ state

VARIABLES
    pc,                 \* where the device's life is: the next step of new, live, ...
    device,             \* BLEDevice.device: 1 when a device handle is held, else 0
    gatt_session,       \* BLEDevice.gatt_session: 1 when a session handle is held
    connection_token,   \* BLEDevice.connection_token (0: none)
    pdu_change_token,   \* BLEDevice.pdu_change_token (0: none)
    services,           \* BLEDevice.services: the cached service handles
    platStatus,         \* platform: the device's live ConnectionStatus
    platPdu,            \* platform: the session's current MaxPduSize
    connRegistered,     \* platform: a ConnectionStatusChanged handler is registered
    pduRegistered,      \* platform: a MaxPduSizeChanged handler is registered
    connPending,        \* platform: undelivered ConnectionStatusChanged notifications
    pduPending,         \* platform: undelivered MaxPduSizeChanged notifications
    deviceClosed,       \* platform: Close succeeded on the device handle
    op,                 \* the operation the last step belongs to
    calls,              \* the platform calls and callbacks of the last step, in order
    ret,                \* what the last step returned
    enum,               \* the platform's answer to the last step's enumeration
    pduSeen,            \* observer: the last size passed to max_pdu_size_changed (0: none)
    owned               \* observer: every service handle the cache has held

devVars == <<device, gatt_session, connection_token, pdu_change_token, services>>
platVars ==
    <<platStatus, platPdu, connRegistered, pduRegistered, connPending, pduPending,
      deviceClosed>>
stepVars == <<op, calls, ret, enum>>
histVars == <<pduSeen, owned>>
vars == <<pc, devVars, platVars, stepVars, histVars>>

Init ==
    /\ pc = "new_resolve"
    /\ device = 0
    /\ gatt_session = 0
    /\ connection_token = 0
    /\ pdu_change_token = 0
    /\ services = <<>>
    /\ platStatus \in ConnectionStatuses
    /\ platPdu \in PduSizes
    /\ connRegistered = FALSE
    /\ pduRegistered = FALSE
    /\ connPending = 0
    /\ pduPending = 0
    /\ deviceClosed = FALSE
    /\ op = "init"
    /\ calls = <<>>
    /\ ret = NoRet
    /\ enum = NoEnum
    /\ pduSeen = 0
    /\ owned = {}

\* ------------------------------------------------------- BLEDevice::new

\* `?` on a windows::core::Error outside a map_err: the crate's From conversion,
\* which carries the platform's diagnostic in Error::Other.
from_winrt_error == "Other"

\* A construction step that fails returns the error; the locals (the handles and
\* tokens obtained so far) go out of scope with it.  Nothing is unregistered or
\* closed on the way out.
NewFails(kind, stepCalls) ==
    /\ pc' = "failed"
    /\ device' = 0
    /\ gatt_session' = 0
    /\ connection_token' = 0
    /\ pdu_change_token' = 0
    /\ op' = "new"
    /\ calls' = stepCalls
    /\ ret' = Err(kind)
    /\ enum' = NoEnum

\* The errors new() maps each failing step to.
resolve_error == "DeviceNotFound"
device_id_error == from_winrt_error
session_error == "DeviceNotFound"
connection_handler_error == "Other"
pdu_handler_error == "Other"

\* BluetoothLEDevice::FromBluetoothAddressAsync(address) and its completion.
NewResolve ==
    /\ pc = "new_resolve"
    /\ \E callOk \in BOOLEAN, awaitOk \in BOOLEAN :
        LET made == IF callOk
                    THEN <<Call("FromBluetoothAddressAsync", "-", 0, TRUE),
                           Call("await", "-", 0, awaitOk)>>
                    ELSE <<Call("FromBluetoothAddressAsync", "-", 0, FALSE)>>
        IN IF callOk /\ awaitOk
           THEN /\ pc' = "new_session"
                /\ device' = 1
                /\ op' = "new"
                /\ calls' = made
                /\ ret' = NoRet
                /\ enum' = NoEnum
                /\ UNCHANGED <<gatt_session, connection_token, pdu_change_token>>
           ELSE /\ ~(~callOk /\ awaitOk)
                /\ NewFails(resolve_error, made)
    /\ UNCHANGED <<services, platVars>>
    /\ UNCHANGED histVars

\* device.BluetoothDeviceId()?, GattSession::FromDeviceIdAsync(id) and its completion.
NewSession ==
    /\ pc = "new_session"
    /\ \E idOk \in BOOLEAN, callOk \in BOOLEAN, awaitOk \in BOOLEAN :
        LET idCall == <<Call("BluetoothDeviceId", "-", 0, idOk)>>
            made == IF ~idOk THEN idCall
                    ELSE IF ~callOk
                    THEN idCall \o <<Call("FromDeviceIdAsync", "-", 0, FALSE)>>
                    ELSE idCall \o <<Call("FromDeviceIdAsync", "-", 0, TRUE),
                                     Call("await", "-", 0, awaitOk)>>
        IN IF idOk /\ callOk /\ awaitOk
           THEN /\ pc' = "new_subscribe_connection"
                /\ gatt_session' = 1
                /\ op' = "new"
                /\ calls' = made
                /\ ret' = NoRet
                /\ enum' = NoEnum
                /\ UNCHANGED <<device, connection_token, pdu_change_token>>
           ELSE /\ (~idOk => (callOk /\ awaitOk))
                /\ (~callOk => awaitOk)
                /\ NewFails(IF ~idOk THEN device_id_error ELSE session_error, made)
    /\ UNCHANGED <<services, platVars>>
    /\ UNCHANGED histVars

\* device.ConnectionStatusChanged(&connection_status_handler)
NewSubscribeConnection ==
    /\ pc = "new_subscribe_connection"
    /\ \E ok \in BOOLEAN :
        LET made == <<Call("ConnectionStatusChanged", "-", 0, ok)>>
        IN IF ok
           THEN /\ pc' = "new_initial_pdu"
                /\ connection_token' = 1
                /\ connRegistered' = TRUE
                /\ op' = "new"
                /\ calls' = made
                /\ ret' = NoRet
                /\ enum' = NoEnum
                /\ UNCHANGED <<device, gatt_session, pdu_change_token>>
           ELSE /\ NewFails(connection_handler_error, made)
                /\ UNCHANGED connRegistered
    /\ UNCHANGED <<services, platStatus, platPdu, pduRegistered, connPending,
                   pduPending, deviceClosed>>
    /\ UNCHANGED histVars

\* The positions in a step's calls where max_pdu_size_changed was invoked.
PduCallbacks(made) == {i \in 1..Len(made) : made[i].name = "max_pdu_size_changed"}

\* The last size the consumer has been given once a step has made these calls.
SeenAfter(made, before) ==
    IF PduCallbacks(made) = {} THEN before
    ELSE made[CHOOSE i \in PduCallbacks(made) : \A j \in PduCallbacks(made) : j <= i].arg

\* max_pdu_size_changed(gatt_session.MaxPduSize().unwrap()): the read, then the
\* callback with the size read; a failed read panics.
initial_max_pdu_size(readOk) ==
    IF readOk
    THEN [calls |-> <<Call("MaxPduSize", "-", 0, TRUE),
                      Call("max_pdu_size_changed", "-", platPdu, TRUE)>>,
          ret |-> NoRet]
    ELSE [calls |-> <<Call("MaxPduSize", "-", 0, FALSE)>>, ret |-> Panic]

NewInitialPduStep ==
    /\ pc = "new_initial_pdu"
    /\ \E readOk \in BOOLEAN :
        /\ calls' = initial_max_pdu_size(readOk).calls
        /\ ret' = initial_max_pdu_size(readOk).ret
    /\ pc' = IF ret' = Panic THEN "panicked" ELSE "new_subscribe_pdu"
    /\ op' = "new"
    /\ enum' = NoEnum
    /\ UNCHANGED <<devVars, platVars>>

NewInitialPdu == NewInitialPduStep /\ UNCHANGED histVars

\* The same step, with the consumer keeping the size it is given.
NewInitialPduSeen ==
    /\ NewInitialPduStep
    /\ pduSeen' = SeenAfter(calls', pduSeen)
    /\ UNCHANGED owned

\* gatt_session.MaxPduSizeChanged(&max_pdu_size_changed_handler), then Ok(BLEDevice {..}).
NewSubscribePdu ==
    /\ pc = "new_subscribe_pdu"
    /\ \E ok \in BOOLEAN :
        LET made == <<Call("MaxPduSizeChanged", "-", 0, ok)>>
        IN IF ok
           THEN /\ pc' = "live"
                /\ pdu_change_token' = 2
                /\ pduRegistered' = TRUE
                /\ services' = <<>>
                /\ op' = "new"
                /\ calls' = made
                /\ ret' = OkUnit
                /\ enum' = NoEnum
                /\ UNCHANGED <<device, gatt_session, connection_token>>
           ELSE /\ NewFails(pdu_handler_error, made)
                /\ UNCHANGED <<services, pduRegistered>>
    /\ UNCHANGED <<platStatus, platPdu, connRegistered, connPending, pduPending,
                   deviceClosed>>
    /\ UNCHANGED histVars

\* --------------------------------------------------------- the platform

\* The process runs: no panic has ended it.
Running == pc # "panicked"

\* The link comes up or goes down out-of-band; a registered handler gets a
\* notification queued.
PlatformStatusChange ==
    /\ Running
    /\ connRegistered => connPending < MaxPending
    /\ platStatus' = IF platStatus = "Connected" THEN "Disconnected" ELSE "Connected"
    /\ connPending' = IF connRegistered THEN connPending + 1 ELSE connPending
    /\ op' = "platform_status"
    /\ calls' = <<>>
    /\ ret' = NoRet
    /\ enum' = NoEnum
    /\ UNCHANGED <<pc, devVars, platPdu, connRegistered, pduRegistered, pduPending,
                   deviceClosed>>
    /\ UNCHANGED histVars

\* The session renegotiates its MaxPduSize; a registered handler gets a
\* notification queued.
PlatformPduChange ==
    /\ Running
    /\ pduRegistered => pduPending < MaxPending
    /\ \E size \in PduSizes \ {platPdu} : platPdu' = size
    /\ pduPending' = IF pduRegistered THEN pduPending + 1 ELSE pduPending
    /\ op' = "platform_pdu"
    /\ calls' = <<>>
    /\ ret' = NoRet
    /\ enum' = NoEnum
    /\ UNCHANGED <<pc, devVars, platStatus, connRegistered, pduRegistered, connPending,
                   deviceClosed>>
    /\ UNCHANGED histVars

\* What connection_status_handler does with one notification: with a sender, it
\* reads the sender's ConnectionStatus (a failed read counts as not connected) and
\* calls connection_status_changed; without a sender it does nothing.  (The
\* second ConnectionStatus read, the argument of trace!, changes nothing and
\* is left out.)
\* The handler as it would be if a failed status read counted as Connected.
connection_status_handler_failed_as_connected(senderSome, readOk) ==
    IF senderSome
    THEN <<Call("ConnectionStatus", "-", 0, readOk),
           Call("connection_status_changed", "-",
                IF ~readOk \/ platStatus = "Connected" THEN 1 ELSE 0, TRUE)>>
    ELSE <<>>

connection_status_handler(senderSome, readOk) ==
    IF senderSome
    THEN <<Call("ConnectionStatus", "-", 0, readOk),
           Call("connection_status_changed", "-",
                IF readOk /\ platStatus = "Connected" THEN 1 ELSE 0, TRUE)>>
    ELSE <<>>

\* The platform delivers one queued ConnectionStatusChanged notification.
ConnectionStatusHandler ==
    /\ Running
    /\ connPending > 0
    /\ \E senderSome \in BOOLEAN, readOk \in BOOLEAN :
        /\ (~senderSome => readOk)
        /\ calls' = connection_status_handler(senderSome, readOk)
    /\ connPending' = connPending - 1
    /\ op' = "connection_status_handler"
    /\ ret' = OkUnit
    /\ enum' = NoEnum
    /\ UNCHANGED <<pc, devVars, platStatus, platPdu, connRegistered, pduRegistered,
                   pduPending, deviceClosed>>
    /\ UNCHANGED histVars

\* The handler as it would be if it passed the size to the callback twice.
max_pdu_size_changed_handler_twice(senderSome, readOk) ==
    IF ~senderSome THEN [calls |-> <<>>, ret |-> OkUnit]
    ELSE IF readOk
    THEN [calls |-> <<Call("MaxPduSize", "-", 0, TRUE),
                      Call("max_pdu_size_changed", "-", platPdu, TRUE),
                      Call("max_pdu_size_changed", "-", platPdu, TRUE)>>,
          ret |-> OkUnit]
    ELSE [calls |-> <<Call("MaxPduSize", "-", 0, FALSE)>>, ret |-> Panic]

\* What max_pdu_size_changed_handler does with one notification: with a sender,
\* max_pdu_size_changed(sender.MaxPduSize().unwrap()); without one, nothing.
max_pdu_size_changed_handler(senderSome, readOk) ==
    IF ~senderSome THEN [calls |-> <<>>, ret |-> OkUnit]
    ELSE IF readOk
    THEN [calls |-> <<Call("MaxPduSize", "-", 0, TRUE),
                      Call("max_pdu_size_changed", "-", platPdu, TRUE)>>,
          ret |-> OkUnit]
    ELSE [calls |-> <<Call("MaxPduSize", "-", 0, FALSE)>>, ret |-> Panic]

\* The platform delivers one queued MaxPduSizeChanged notification.
MaxPduSizeChangedHandlerStep ==
    /\ Running
    /\ pduPending > 0
    /\ \E senderSome \in BOOLEAN, readOk \in BOOLEAN :
        /\ (~senderSome => readOk)
        /\ calls' = max_pdu_size_changed_handler(senderSome, readOk).calls
        /\ ret' = max_pdu_size_changed_handler(senderSome, readOk).ret
    /\ pc' = IF ret' = Panic THEN "panicked" ELSE pc
    /\ pduPending' = pduPending - 1
    /\ op' = "max_pdu_size_changed_handler"
    /\ enum' = NoEnum
    /\ UNCHANGED <<devVars, platStatus, platPdu, connRegistered, pduRegistered,
                   connPending, deviceClosed>>

MaxPduSizeChangedHandler == MaxPduSizeChangedHandlerStep /\ UNCHANGED histVars

\* The same delivery, with the consumer keeping the size it is given.
MaxPduSizeChangedHandlerSeen ==
    /\ MaxPduSizeChangedHandlerStep
    /\ pduSeen' = SeenAfter(calls', pduSeen)
    /\ UNCHANGED owned

\* ------------------------------------------------- operations on a device

\* utils::to_error(status): Ok(()) for Success, the status's error otherwise.
to_error(status) == IF status = "Success" THEN OkUnit ELSE Err("Other")

\* BLEDevice::is_connected: one read of the live status, never a stored value.
\* is_connected() as it would be if a failed status read counted as not connected.
is_connected_lenient(readOk) ==
    [calls |-> <<Call("ConnectionStatus", "-", 0, readOk)>>,
     ret |-> OkBool(readOk /\ platStatus = "Connected")]

is_connected(readOk) ==
    [calls |-> <<Call("ConnectionStatus", "-", 0, readOk)>>,
     ret |-> IF readOk THEN OkBool(platStatus = "Connected") ELSE Err("Other")]

\* BLEDevice::get_gatt_services(cache_mode): the call and its completion; either
\* failing is Error::Other.
get_gatt_services(cache_mode, o) ==
    [calls |-> IF o.callOk
               THEN <<Call("GetGattServicesWithCacheModeAsync", cache_mode, 0, TRUE),
                      Call("await", cache_mode, 0, o.awaitOk)>>
               ELSE <<Call("GetGattServicesWithCacheModeAsync", cache_mode, 0, FALSE)>>,
     ret |-> IF o.callOk /\ o.awaitOk THEN OkUnit ELSE Err("Other")]

\* connect as it would be if it enumerated whatever is_connected reports.
connect_enumerating(readOk, o) ==
    LET ic == is_connected(readOk)
        g == get_gatt_services("Uncached", o)
    IN IF ic.ret.tag = "Err"
       THEN [calls |-> ic.calls, ret |-> ic.ret, services |-> services]
       ELSE IF g.ret.tag = "Err"
       THEN [calls |-> ic.calls \o g.calls, ret |-> g.ret, services |-> services]
       ELSE IF ~o.statusOk
       THEN [calls |-> ic.calls \o g.calls \o <<Call("Status", "-", 0, FALSE)>>,
             ret |-> Err("DeviceNotFound"), services |-> services]
       ELSE [calls |-> ic.calls \o g.calls \o <<Call("Status", "-", 0, TRUE)>>,
             ret |-> to_error(o.status), services |-> services]

\* connect as it would be if it enumerated in Cached mode.
connect_cached(readOk, o) ==
    LET ic == is_connected(readOk)
        g == get_gatt_services("Cached", o)
    IN IF ic.ret.tag = "Err"
       THEN [calls |-> ic.calls, ret |-> ic.ret, services |-> services]
       ELSE IF ic.ret.flag
       THEN [calls |-> ic.calls, ret |-> OkUnit, services |-> services]
       ELSE IF g.ret.tag = "Err"
       THEN [calls |-> ic.calls \o g.calls, ret |-> g.ret, services |-> services]
       ELSE IF ~o.statusOk
       THEN [calls |-> ic.calls \o g.calls \o <<Call("Status", "-", 0, FALSE)>>,
             ret |-> Err("DeviceNotFound"), services |-> services]
       ELSE [calls |-> ic.calls \o g.calls \o <<Call("Status", "-", 0, TRUE)>>,
             ret |-> to_error(o.status), services |-> services]

\* BLEDevice::connect: calls made, value returned, and the cache afterwards
\* (connect takes &self: the cache is what it was).
\* connect() as it would be if a Success enumeration were stored in the cache.
connect_storing(readOk, o) ==
    LET ic == is_connected(readOk)
        g == get_gatt_services("Uncached", o)
    IN IF ic.ret.tag = "Err"
       THEN [calls |-> ic.calls, ret |-> ic.ret, services |-> services]
       ELSE IF ic.ret.flag
       THEN [calls |-> ic.calls, ret |-> OkUnit, services |-> services]
       ELSE IF g.ret.tag = "Err"
       THEN [calls |-> ic.calls \o g.calls, ret |-> g.ret, services |-> services]
       ELSE IF ~o.statusOk
       THEN [calls |-> ic.calls \o g.calls \o <<Call("Status", "-", 0, FALSE)>>,
             ret |-> Err("DeviceNotFound"), services |-> services]
       ELSE [calls |-> ic.calls \o g.calls \o <<Call("Status", "-", 0, TRUE)>>,
             ret |-> to_error(o.status),
             services |-> IF o.status = "Success" THEN o.list ELSE services]

connect(readOk, o) ==
    LET ic == is_connected(readOk)
        g == get_gatt_services("Uncached", o)
    IN IF ic.ret.tag = "Err"
       THEN [calls |-> ic.calls, ret |-> ic.ret, services |-> services]
       ELSE IF ic.ret.flag
       THEN [calls |-> ic.calls, ret |-> OkUnit, services |-> services]
       ELSE IF g.ret.tag = "Err"
       THEN [calls |-> ic.calls \o g.calls, ret |-> g.ret, services |-> services]
       ELSE IF ~o.statusOk
       THEN [calls |-> ic.calls \o g.calls \o <<Call("Status", "-", 0, FALSE)>>,
             ret |-> Err("DeviceNotFound"), services |-> services]
       ELSE [calls |-> ic.calls \o g.calls \o <<Call("Status", "-", 0, TRUE)>>,
             ret |-> to_error(o.status), services |-> services]

\* discover_services as it would be if a Success appended the enumerated
\* services to the cache instead of replacing it.
discover_services_merging(o) ==
    LET g == get_gatt_services("Cached", o)
    IN IF g.ret.tag = "Err"
       THEN [calls |-> g.calls, ret |-> g.ret, services |-> services]
       ELSE IF ~o.statusOk
       THEN [calls |-> g.calls \o <<Call("Status", "-", 0, FALSE)>>,
             ret |-> Err("Other"), services |-> services]
       ELSE IF o.status = "Success"
       THEN IF ~o.listOk
            THEN [calls |-> g.calls \o <<Call("Status", "-", 0, TRUE),
                                         Call("Services", "-", 0, FALSE)>>,
                  ret |-> Err("Other"), services |-> services]
            ELSE [calls |-> g.calls \o <<Call("Status", "-", 0, TRUE),
                                         Call("Services", "-", 0, TRUE)>>,
                  ret |-> OkList(services \o o.list), services |-> services \o o.list]
       ELSE [calls |-> g.calls \o <<Call("Status", "-", 0, TRUE)>>,
             ret |-> OkList(services), services |-> services]

\* discover_services as it would be if it stored the result's list whatever the
\* status.
discover_services_storing(o) ==
    LET g == get_gatt_services("Cached", o)
    IN IF g.ret.tag = "Err"
       THEN [calls |-> g.calls, ret |-> g.ret, services |-> services]
       ELSE IF ~o.statusOk
       THEN [calls |-> g.calls \o <<Call("Status", "-", 0, FALSE)>>,
             ret |-> Err("Other"), services |-> services]
       ELSE IF ~o.listOk
       THEN [calls |-> g.calls \o <<Call("Status", "-", 0, TRUE),
                                    Call("Services", "-", 0, FALSE)>>,
             ret |-> Err("Other"), services |-> services]
       ELSE [calls |-> g.calls \o <<Call("Status", "-", 0, TRUE),
                                    Call("Services", "-", 0, TRUE)>>,
             ret |-> OkList(o.list), services |-> o.list]

\* BLEDevice::discover_services: calls made, value returned, cache afterwards.
\* discover_services() as it would be if a failed call emptied the cache.
discover_services_clearing(o) ==
    LET g == get_gatt_services("Cached", o)
    IN IF g.ret.tag = "Err"
       THEN [calls |-> g.calls, ret |-> g.ret, services |-> <<>>]
       ELSE IF ~o.statusOk
       THEN [calls |-> g.calls \o <<Call("Status", "-", 0, FALSE)>>,
             ret |-> Err("Other"), services |-> <<>>]
       ELSE IF o.status = "Success"
       THEN IF ~o.listOk
            THEN [calls |-> g.calls \o <<Call("Status", "-", 0, TRUE),
                                         Call("Services", "-", 0, FALSE)>>,
                  ret |-> Err("Other"), services |-> <<>>]
            ELSE [calls |-> g.calls \o <<Call("Status", "-", 0, TRUE),
                                         Call("Services", "-", 0, TRUE)>>,
                  ret |-> OkList(o.list), services |-> o.list]
       ELSE [calls |-> g.calls \o <<Call("Status", "-", 0, TRUE)>>,
             ret |-> OkList(services), services |-> services]

discover_services(o) ==
    LET g == get_gatt_services("Cached", o)
    IN IF g.ret.tag = "Err"
       THEN [calls |-> g.calls, ret |-> g.ret, services |-> services]
       ELSE IF ~o.statusOk
       THEN [calls |-> g.calls \o <<Call("Status", "-", 0, FALSE)>>,
             ret |-> Err("Other"), services |-> services]
       ELSE IF o.status = "Success"
       THEN IF ~o.listOk
            THEN [calls |-> g.calls \o <<Call("Status", "-", 0, TRUE),
                                         Call("Services", "-", 0, FALSE)>>,
                  ret |-> Err("Other"), services |-> services]
            ELSE [calls |-> g.calls \o <<Call("Status", "-", 0, TRUE),
                                         Call("Services", "-", 0, TRUE)>>,
                  ret |-> OkList(o.list), services |-> o.list]
       ELSE [calls |-> g.calls \o <<Call("Status", "-", 0, TRUE)>>,
             ret |-> OkList(services), services |-> services]

\* get_characteristics as it would be if every non-Success status were an error,
\* as in get_characteristic_descriptors.
get_characteristics_strict(service, o) ==
    LET started == Call("GetCharacteristicsWithCacheModeAsync", "Uncached", service, o.callOk)
    IN IF ~o.callOk
       THEN [calls |-> <<started>>, ret |-> Err(from_winrt_error)]
       ELSE IF ~o.awaitOk
       THEN [calls |-> <<started, Call("await", "Uncached", service, FALSE)>>,
             ret |-> Err(from_winrt_error)]
       ELSE LET done == <<started, Call("await", "Uncached", service, TRUE),
                          Call("Status", "-", service, o.statusOk)>>
            IN IF o.statusOk /\ o.status = "Success"
               THEN IF o.listOk
                    THEN [calls |-> done \o <<Call("Characteristics", "-", service, TRUE)>>,
                          ret |-> OkList(o.list)]
                    ELSE [calls |-> done \o <<Call("Characteristics", "-", service, FALSE)>>,
                          ret |-> Err(from_winrt_error)]
               ELSE [calls |-> done, ret |-> Err("Other")]

\* BLEDevice::get_characteristics(service)
get_characteristics(service, o) ==
    LET started == Call("GetCharacteristicsWithCacheModeAsync", "Uncached", service, o.callOk)
    IN IF ~o.callOk
       THEN [calls |-> <<started>>, ret |-> Err(from_winrt_error)]
       ELSE IF ~o.awaitOk
       THEN [calls |-> <<started, Call("await", "Uncached", service, FALSE)>>,
             ret |-> Err(from_winrt_error)]
       ELSE LET done == <<started, Call("await", "Uncached", service, TRUE)>>
            IN IF ~o.statusOk
               THEN [calls |-> done \o <<Call("Status", "-", service, FALSE)>>,
                     ret |-> Err("Other")]
               ELSE IF o.status = "Success"
               THEN IF o.listOk
                    THEN [calls |-> done \o <<Call("Status", "-", service, TRUE),
                                              Call("Characteristics", "-", service, TRUE)>>,
                          ret |-> OkList(o.list)]
                    ELSE [calls |-> done \o <<Call("Status", "-", service, TRUE),
                                              Call("Characteristics", "-", service, FALSE)>>,
                          ret |-> Err(from_winrt_error)]
               ELSE IF o.status = "ProtocolError"
               THEN [calls |-> done \o <<Call("Status", "-", service, TRUE)>>,
                     ret |-> Err("Other")]
               ELSE [calls |-> done \o <<Call("Status", "-", service, TRUE)>>,
                     ret |-> OkList(<<>>)]

\* get_characteristic_descriptors as it would be with the leniency of
\* get_characteristics: an empty list for a status that is neither Success nor
\* ProtocolError.
get_characteristic_descriptors_lenient(characteristic, o) ==
    LET started == Call("GetDescriptorsWithCacheModeAsync", "Uncached", characteristic, o.callOk)
    IN IF ~o.callOk
       THEN [calls |-> <<started>>, ret |-> Err(from_winrt_error)]
       ELSE IF ~o.awaitOk
       THEN [calls |-> <<started, Call("await", "Uncached", characteristic, FALSE)>>,
             ret |-> Err(from_winrt_error)]
       ELSE LET done == <<started, Call("await", "Uncached", characteristic, TRUE),
                          Call("Status", "-", characteristic, o.statusOk)>>
            IN IF o.statusOk /\ o.status = "Success"
               THEN IF o.listOk
                    THEN [calls |-> done \o <<Call("Descriptors", "-", characteristic, TRUE)>>,
                          ret |-> OkList(o.list)]
                    ELSE [calls |-> done \o <<Call("Descriptors", "-", characteristic, FALSE)>>,
                          ret |-> Err(from_winrt_error)]
               ELSE IF o.statusOk /\ o.status # "ProtocolError"
               THEN [calls |-> done, ret |-> OkList(<<>>)]
               ELSE [calls |-> done, ret |-> Err("Other")]

\* BLEDevice::get_characteristic_descriptors(characteristic)
get_characteristic_descriptors(characteristic, o) ==
    LET started == Call("GetDescriptorsWithCacheModeAsync", "Uncached", characteristic, o.callOk)
    IN IF ~o.callOk
       THEN [calls |-> <<started>>, ret |-> Err(from_winrt_error)]
       ELSE IF ~o.awaitOk
       THEN [calls |-> <<started, Call("await", "Uncached", characteristic, FALSE)>>,
             ret |-> Err(from_winrt_error)]
       ELSE LET done == <<started, Call("await", "Uncached", characteristic, TRUE),
                          Call("Status", "-", characteristic, o.statusOk)>>
            IN IF o.statusOk /\ o.status = "Success"
               THEN IF o.listOk
                    THEN [calls |-> done \o <<Call("Descriptors", "-", characteristic, TRUE)>>,
                          ret |-> OkList(o.list)]
                    ELSE [calls |-> done \o <<Call("Descriptors", "-", characteristic, FALSE)>>,
                          ret |-> Err(from_winrt_error)]
               ELSE [calls |-> done, ret |-> Err("Other")]

\* Whether a step's calls include an enumeration.
Enumerated(made) ==
    \E i \in 1..Len(made) :
        made[i].name \in {"GetGattServicesWithCacheModeAsync",
                          "GetCharacteristicsWithCacheModeAsync",
                          "GetDescriptorsWithCacheModeAsync"}

Connect ==
    /\ pc = "live"
    /\ \E readOk \in BOOLEAN :
        \E o \in IF readOk /\ platStatus # "Connected" THEN ChildOutcomes ELSE {NoEnum} :
            LET r == connect(readOk, o)
            IN /\ calls' = r.calls
               /\ ret' = r.ret
               /\ services' = r.services
               /\ enum' = IF Enumerated(r.calls) THEN o ELSE NoEnum
    /\ op' = "connect"
    /\ UNCHANGED <<pc, device, gatt_session, connection_token, pdu_change_token, platVars>>
    /\ UNCHANGED histVars

IsConnected ==
    /\ pc = "live"
    /\ \E readOk \in BOOLEAN :
        LET r == is_connected(readOk)
        IN /\ calls' = r.calls
           /\ ret' = r.ret
    /\ op' = "is_connected"
    /\ enum' = NoEnum
    /\ UNCHANGED <<pc, devVars, platVars>>
    /\ UNCHANGED histVars

DiscoverServicesStep ==
    /\ pc = "live"
    /\ \E o \in ServiceOutcomes :
        LET r == discover_services(o)
        IN /\ calls' = r.calls
           /\ ret' = r.ret
           /\ services' = r.services
           /\ enum' = o
    /\ op' = "discover_services"
    /\ UNCHANGED <<pc, device, gatt_session, connection_token, pdu_change_token, platVars>>

DiscoverServices == DiscoverServicesStep /\ UNCHANGED histVars

\* The same call, with every handle the cache comes to hold kept on record.
DiscoverServicesOwning ==
    /\ DiscoverServicesStep
    /\ owned' = owned \cup {services'[i] : i \in 1..Len(services')}
    /\ UNCHANGED pduSeen

\* The consumer enumerates the characteristics of a service of the slice that
\* discover_services has just returned to it.
GetCharacteristics ==
    /\ pc = "live"
    /\ op = "discover_services"
    /\ ret.tag = "Ok"
    /\ \E i \in 1..Len(ret.list), o \in ChildOutcomes :
        LET r == get_characteristics(ret.list[i], o)
        IN /\ calls' = r.calls
           /\ ret' = r.ret
           /\ enum' = o
    /\ op' = "get_characteristics"
    /\ UNCHANGED <<pc, devVars, platVars>>
    /\ UNCHANGED histVars

\* The consumer enumerates the descriptors of a characteristic that
\* get_characteristics has just returned to it.
GetCharacteristicDescriptors ==
    /\ pc = "live"
    /\ op = "get_characteristics"
    /\ ret.tag = "Ok"
    /\ \E i \in 1..Len(ret.list), o \in ChildOutcomes :
        LET r == get_characteristic_descriptors(ret.list[i], o)
        IN /\ calls' = r.calls
           /\ ret' = r.ret
           /\ enum' = o
    /\ op' = "get_characteristic_descriptors"
    /\ UNCHANGED <<pc, devVars, platVars>>
    /\ UNCHANGED histVars

\* ------------------------------------------------------ Drop for BLEDevice

\* self.services.iter().for_each(|service| service.Close()): from the i-th on.
RECURSIVE close_services(_, _, _)
close_services(svcs, i, failing) ==
    IF i > Len(svcs) THEN <<>>
    ELSE <<Call("Close", "service", svcs[i], i \notin failing)>>
         \o close_services(svcs, i + 1, failing)

\* drop() as it would be if a failing step ended the teardown: the calls up to
\* and including the first one that fails.
RECURSIVE UntilFailure(_)
UntilFailure(made) ==
    IF made = <<>> THEN <<>>
    ELSE IF ~Head(made).ok THEN <<Head(made)>>
    ELSE <<Head(made)>> \o UntilFailure(Tail(made))

drop_until_failure(pduOk, connOk, failing, closeOk) ==
    UntilFailure(
        <<Call("RemoveMaxPduSizeChanged", "-", pdu_change_token, pduOk),
          Call("RemoveConnectionStatusChanged", "-", connection_token, connOk)>>
        \o close_services(services, 1, failing)
        \o <<Call("Close", "device", 0, closeOk)>>)

\* drop() as it would be if the device handle were closed before the services.
drop_device_first(pduOk, connOk, failing, closeOk) ==
    <<Call("RemoveMaxPduSizeChanged", "-", pdu_change_token, pduOk),
      Call("RemoveConnectionStatusChanged", "-", connection_token, connOk),
      Call("Close", "device", 0, closeOk)>>
    \o close_services(services, 1, failing)

\* drop(): the calls it makes, in order.  A failing call is logged and the next
\* one is made.  failing: the cache indices whose Close fails.
drop(pduOk, connOk, failing, closeOk) ==
    <<Call("RemoveMaxPduSizeChanged", "-", pdu_change_token, pduOk),
      Call("RemoveConnectionStatusChanged", "-", connection_token, connOk)>>
    \o close_services(services, 1, failing)
    \o <<Call("Close", "device", 0, closeOk)>>

\* The device is discarded.  A Remove... call that succeeds unregisters the
\* handler; one that fails leaves the registration as it was.
Drop ==
    /\ pc = "live"
    /\ \E pduOk \in BOOLEAN, connOk \in BOOLEAN, closeOk \in BOOLEAN,
          failing \in SUBSET (1..Len(services)) :
        calls' = drop(pduOk, connOk, failing, closeOk)
    /\ pduRegistered' =
         IF \E i \in 1..Len(calls') :
               calls'[i].name = "RemoveMaxPduSizeChanged" /\ calls'[i].ok
         THEN FALSE ELSE pduRegistered
    /\ connRegistered' =
         IF \E i \in 1..Len(calls') :
               calls'[i].name = "RemoveConnectionStatusChanged" /\ calls'[i].ok
         THEN FALSE ELSE connRegistered
    /\ deviceClosed' =
         \E i \in 1..Len(calls') :
             calls'[i].name = "Close" /\ calls'[i].mode = "device" /\ calls'[i].ok
    /\ pc' = "dropped"
    /\ op' = "drop"
    /\ ret' = OkUnit
    /\ enum' = NoEnum
    /\ UNCHANGED <<devVars, platStatus, platPdu, connPending, pduPending>>
    /\ UNCHANGED histVars

\* ------------------------------------------------------------ specification

Next ==
    \/ NewResolve
    \/ NewSession
    \/ NewSubscribeConnection
    \/ NewInitialPdu
    \/ NewSubscribePdu
    \/ PlatformStatusChange
    \/ PlatformPduChange
    \/ ConnectionStatusHandler
    \/ MaxPduSizeChangedHandler
    \/ Connect
    \/ IsConnected
    \/ DiscoverServices
    \/ GetCharacteristics
    \/ GetCharacteristicDescriptors
    \/ Drop

Spec == Init /\ [][Next]_vars

\* The same program, observed: the consumer keeps the last size it was given
\* and a record is kept of every service handle the cache has held.
NextObserved ==
    \/ NewResolve
    \/ NewSession
    \/ NewSubscribeConnection
    \/ NewInitialPduSeen
    \/ NewSubscribePdu
    \/ PlatformStatusChange
    \/ PlatformPduChange
    \/ ConnectionStatusHandler
    \/ MaxPduSizeChangedHandlerSeen
    \/ Connect
    \/ IsConnected
    \/ DiscoverServicesOwning
    \/ GetCharacteristics
    \/ GetCharacteristicDescriptors
    \/ Drop

SpecObserved == Init /\ [][NextObserved]_vars

\* ------------------------------------------------------------------ claims

\* The positions in a step's calls where a call of this name and mode was made.
CallsTo(made, name, mode) ==
    {i \in 1..Len(made) : made[i].name = name /\ made[i].mode = mode}

\* C1: disposal attempts every step whatever the outcome of the others: both
\* unsubscriptions, a Close for every cached service and the Close of the device
\* handle are all made, whichever of them fail, and drop reports no error.
C1_DropAttemptsEveryStep ==
    op = "drop" =>
        /\ ret = OkUnit
        /\ CallsTo(calls, "RemoveMaxPduSizeChanged", "-") # {}
        /\ CallsTo(calls, "RemoveConnectionStatusChanged", "-") # {}
        /\ CallsTo(calls, "Close", "device") # {}
        /\ \A k \in 1..Len(services) :
              \E i \in CallsTo(calls, "Close", "service") : calls[i].arg = services[k]

\* C1's case: a disposal in which both unsubscriptions and the Close of the first
\* of two cached services failed, and the second service and the device handle
\* were closed all the same.
C1_Witness ==
    /\ op = "drop"
    /\ Len(services) >= 2
    /\ Len(calls) = Len(services) + 3
    /\ ~calls[1].ok
    /\ ~calls[2].ok
    /\ ~calls[3].ok
    /\ calls[4].name = "Close" /\ calls[4].arg = services[2]
    /\ calls[Len(calls)].mode = "device"

\* C2: disposal makes each of its calls exactly once, in this order: remove the
\* MaxPduSizeChanged handler, remove the ConnectionStatusChanged handler, Close
\* each cached service in cache order, Close the device handle last.
C2_DropOrder ==
    op = "drop" =>
        /\ Len(calls) = Len(services) + 3
        /\ calls[1].name = "RemoveMaxPduSizeChanged"
        /\ calls[1].arg = pdu_change_token
        /\ calls[2].name = "RemoveConnectionStatusChanged"
        /\ calls[2].arg = connection_token
        /\ \A k \in 1..Len(services) :
              /\ calls[2 + k].name = "Close"
              /\ calls[2 + k].mode = "service"
              /\ calls[2 + k].arg = services[k]
        /\ calls[Len(calls)].name = "Close"
        /\ calls[Len(calls)].mode = "device"

\* C2's case: a disposal of a device with the cache <<2, 1>>.
C2_Witness ==
    /\ op = "drop"
    /\ services = <<2, 1>>
    /\ calls[3].arg = 2
    /\ calls[4].arg = 1
    /\ calls[5].mode = "device"

\* The platform answered the step's enumeration with a status that was read.
StatusRead == enum.callOk /\ enum.awaitOk /\ enum.statusOk

\* C3 as stated: whenever discover_services obtains a Cached-mode enumeration
\* whose status is Success, the cache afterwards is the enumerated sequence and
\* the call returns that cache.
C3_SuccessReplacesCache ==
    (op = "discover_services" /\ StatusRead /\ enum.status = "Success") =>
        /\ calls[1].mode = "Cached"
        /\ services = enum.list
        /\ ret = OkList(enum.list)

\* C3 amended: whenever discover_services obtains a Cached-mode enumeration whose
\* status is Success and whose service list can be read, the cache afterwards is
\* exactly the enumerated sequence, in the enumeration's order, and the call
\* returns that cache.
C3_SuccessWithListReplacesCache ==
    (op = "discover_services" /\ StatusRead /\ enum.status = "Success" /\ enum.listOk) =>
        /\ calls[1].mode = "Cached"
        /\ services = enum.list
        /\ ret = OkList(enum.list)

\* C3's case: a successful discovery that returned the services 2, 1 in that
\* order.
C3_Witness ==
    /\ op = "discover_services"
    /\ StatusRead
    /\ enum.status = "Success"
    /\ enum.listOk
    /\ enum.list = <<2, 1>>
    /\ services = <<2, 1>>
    /\ ret.tag = "Ok"

\* C4: a discover_services whose Cached-mode enumeration has a status other than
\* Success leaves the cache as it was before the call and returns Ok with it.
C4_NonSuccessKeepsCache ==
    [][(op' = "discover_services" /\ StatusRead' /\ enum'.status # "Success") =>
          /\ calls'[1].mode = "Cached"
          /\ services' = services
          /\ ret' = OkList(services)]_vars

\* C4's case: the platform answered Unreachable with the list <<1>> while the
\* cache held <<2, 1>>, which the call returned.
C4_Witness ==
    /\ op = "discover_services"
    /\ StatusRead
    /\ enum.status = "Unreachable"
    /\ enum.list = <<1>>
    /\ services = <<2, 1>>
    /\ ret = OkList(<<2, 1>>)

\* C5: a connect made while the live status is Connected enumerates nothing,
\* leaves the device's fields as they were and returns Ok(()), every time.
C5_ConnectIdempotent ==
    [][(op' = "connect" /\ calls'[1].ok /\ platStatus' = "Connected") =>
          /\ ~Enumerated(calls')
          /\ ret' = OkUnit
          /\ UNCHANGED devVars]_vars

\* C5's case: a connect on a connected device that holds a cache.
C5_Witness ==
    /\ op = "connect"
    /\ platStatus = "Connected"
    /\ calls[1].ok
    /\ ret = OkUnit
    /\ services # <<>>

\* C6: a connect made while the live status is not Connected enumerates the
\* services exactly once, in Uncached mode; it returns Ok(()) exactly when the
\* enumeration's status is Success and an error otherwise, and it leaves the
\* cache as it was.
C6_ConnectEnumeratesUncached ==
    [][(op' = "connect" /\ calls'[1].ok /\ platStatus' # "Connected") =>
          /\ Cardinality(CallsTo(calls', "GetGattServicesWithCacheModeAsync", "Uncached")) = 1
          /\ CallsTo(calls', "GetGattServicesWithCacheModeAsync", "Cached") = {}
          /\ (ret' = OkUnit) <=> (StatusRead' /\ enum'.status = "Success")
          /\ ret'.tag \in {"Ok", "Err"}
          /\ ret'.tag = "Ok" => ret' = OkUnit
          /\ services' = services]_vars

\* C6's case: a connect on a disconnected device whose enumeration succeeded
\* with a list the cache does not hold.
C6_Witness ==
    /\ op = "connect"
    /\ platStatus = "Disconnected"
    /\ StatusRead
    /\ enum.status = "Success"
    /\ ret = OkUnit
    /\ enum.list = <<1>>
    /\ services # enum.list

\* C7 as stated: get_characteristics enumerates in Uncached mode; Success returns
\* the enumerated characteristics, ProtocolError Err(Other), any other status an
\* empty Ok list, and a failure of the call, its completion or the status read
\* an error.
C7_CharacteristicsThreeWay ==
    op = "get_characteristics" =>
        /\ calls[1].name = "GetCharacteristicsWithCacheModeAsync"
        /\ calls[1].mode = "Uncached"
        /\ (StatusRead /\ enum.status = "Success") => ret = OkList(enum.list)
        /\ (StatusRead /\ enum.status = "ProtocolError") => ret = Err("Other")
        /\ (StatusRead /\ enum.status \notin {"Success", "ProtocolError"}) =>
              ret = OkList(<<>>)
        /\ ~StatusRead => ret.tag = "Err"

\* C7 amended: as stated, except that Success returns the enumerated
\* characteristics when the list can be read, and an error when reading the list
\* fails.
C7_CharacteristicsThreeWayWithList ==
    op = "get_characteristics" =>
        /\ calls[1].name = "GetCharacteristicsWithCacheModeAsync"
        /\ calls[1].mode = "Uncached"
        /\ (StatusRead /\ enum.status = "Success" /\ enum.listOk) =>
              ret = OkList(enum.list)
        /\ (StatusRead /\ enum.status = "Success" /\ ~enum.listOk) => ret.tag = "Err"
        /\ (StatusRead /\ enum.status = "ProtocolError") => ret = Err("Other")
        /\ (StatusRead /\ enum.status \notin {"Success", "ProtocolError"}) =>
              ret = OkList(<<>>)
        /\ ~StatusRead => ret.tag = "Err"

\* C7's case: the status Unreachable, answered with an empty Ok list although the
\* result held a characteristic.
C7_Witness ==
    /\ op = "get_characteristics"
    /\ StatusRead
    /\ enum.status = "Unreachable"
    /\ enum.list = <<1>>
    /\ ret = OkList(<<>>)

\* C8: get_characteristic_descriptors enumerates in Uncached mode and returns Ok,
\* with the enumerated descriptors, only when the status is Success; every other
\* status and every platform failure is an error.
C8_DescriptorsStrict ==
    op = "get_characteristic_descriptors" =>
        /\ calls[1].name = "GetDescriptorsWithCacheModeAsync"
        /\ calls[1].mode = "Uncached"
        /\ ret.tag \in {"Ok", "Err"}
        /\ ret.tag = "Ok" =>
              (StatusRead /\ enum.status = "Success" /\ ret = OkList(enum.list))
        /\ ~(StatusRead /\ enum.status = "Success" /\ enum.listOk) => ret.tag = "Err"

\* C8's case: the status Unreachable, for which get_characteristics returns an
\* empty Ok list, is an error here.
C8_Witness ==
    /\ op = "get_characteristic_descriptors"
    /\ StatusRead
    /\ enum.status = "Unreachable"
    /\ ret = Err("Other")

\* C9: whenever new returns an error, no handler registered during that call is
\* still registered with the platform.
C9_NoRegistrationAfterFailedNew ==
    (op = "new" /\ ret.tag = "Err") => (~connRegistered /\ ~pduRegistered)

\* C10: new returns DeviceNotFound when address resolution fails and when
\* anything in establishing the session fails, obtaining the device identifier
\* included; it returns Other when either subscription fails; and it returns no
\* device in any of these cases.
C10_NewErrorKinds ==
    (op = "new" /\ ret.tag = "Err") =>
        /\ pc = "failed"
        /\ device = 0
        /\ gatt_session = 0
        /\ calls[1].name \in {"FromBluetoothAddressAsync", "BluetoothDeviceId"} =>
              ret.err = "DeviceNotFound"
        /\ calls[1].name \in {"ConnectionStatusChanged", "MaxPduSizeChanged"} =>
              ret.err = "Other"

\* A step's one max_pdu_size_changed invocation passes the session's size.
OnePduCallback(made) ==
    /\ Cardinality(PduCallbacks(made)) = 1
    /\ \A i \in PduCallbacks(made) : made[i].arg = platPdu

\* The initial invocation: new makes an invocation only in its step before the
\* MaxPduSizeChanged subscription, with nothing registered or queued; that step
\* is the only way to the subscription, and so to Ok, and makes exactly one
\* invocation with the session's size; no step but new and the handler makes one.
InitialPduCallback ==
    /\ (op' = "new" /\ PduCallbacks(calls') # {}) =>
          pc = "new_initial_pdu" /\ ~pduRegistered /\ pduPending = 0
    /\ (pc' = "new_subscribe_pdu" /\ pc # "new_subscribe_pdu") =>
          pc = "new_initial_pdu" /\ OnePduCallback(calls')
    /\ (op' = "new" /\ ret' = OkUnit) =>
          pc = "new_subscribe_pdu" /\ pc' = "live" /\ PduCallbacks(calls') = {}
    /\ op' \notin {"new", "max_pdu_size_changed_handler"} => PduCallbacks(calls') = {}

ConnectionCallbacks(made) ==
    {i \in 1..Len(made) : made[i].name = "connection_status_changed"}

\* A status change while the subscription is registered queues a notification.
ChangeIsReported ==
    (op' = "platform_status" /\ connRegistered) => connPending' = connPending + 1

\* C12 (as stated): while the subscription is registered every status change is
\* reported, and every reported change makes exactly one on_connection_changed
\* invocation, whose argument is true iff the status is Connected.
C12_OneCallbackPerChange ==
    [][/\ ChangeIsReported
       /\ op' = "connection_status_handler" =>
             /\ connPending' = connPending - 1
             /\ Cardinality(ConnectionCallbacks(calls')) = 1
             /\ \A i \in ConnectionCallbacks(calls') :
                   calls'[i].arg = 1 <=> platStatus = "Connected"]_vars

\* C12 (amended): while the subscription is registered every status change is
\* reported; a reported change delivered with a sender makes exactly one
\* on_connection_changed invocation, whose argument is true iff the status read
\* from the sender succeeds and is Connected; one delivered without a sender
\* makes none.
C12_OneCallbackPerSender ==
    [][/\ ChangeIsReported
       /\ op' = "connection_status_handler" =>
             /\ connPending' = connPending - 1
             /\ \/ calls' = <<>>
                \/ /\ Len(calls') = 2
                   /\ calls'[1].name = "ConnectionStatus"
                   /\ ConnectionCallbacks(calls') = {2}
                   /\ calls'[2].arg \in {0, 1}
                   /\ calls'[2].arg = 1 <=> (calls'[1].ok /\ platStatus = "Connected")]_vars

\* A change to Connected has been delivered with a sender and passed on as true
\* while the subscription is registered.
C12_Witness ==
    /\ op = "connection_status_handler"
    /\ connRegistered
    /\ Len(calls) = 2
    /\ calls[1].ok
    /\ calls[2].arg = 1

\* C13: once disposal has closed the device handle, neither the
\* connection-status registration nor the MaxPduSize registration is still
\* registered with the platform, a failed unsubscribe step included.
C13_NoRegistrationOutlivesDevice ==
    deviceClosed => (~connRegistered /\ ~pduRegistered)

\* The enumeration completed, its status was read, and the status is Success.
StatusSuccess(o) == o.callOk /\ o.awaitOk /\ o.statusOk /\ o.status = "Success"

\* C14 (as stated): the cache is empty at first; every discover_services call
\* whose Cached enumeration has status Success leaves the cache equal to the
\* services it returns; and no other step, connect included, changes the cache.
C14_CacheIsLastSuccess ==
    /\ services = <<>>
    /\ [][IF op' = "discover_services" /\ StatusSuccess(enum')
          THEN ret'.tag = "Ok" /\ services' = ret'.list
          ELSE services' = services]_vars

\* C14 (amended): the cache is empty at first; every discover_services call
\* that returns services after a Cached enumeration with status Success leaves
\* the cache equal to those services; and no other step, connect included,
\* changes the cache.
C14_CacheIsLastReturnedSuccess ==
    /\ services = <<>>
    /\ [][IF op' = "discover_services" /\ StatusSuccess(enum') /\ ret'.tag = "Ok"
          THEN services' = ret'.list
          ELSE services' = services]_vars

\* connect has enumerated with status Success and another list while the cache
\* holds the two services of an earlier discovery.
C14_Witness ==
    /\ op = "connect"
    /\ Enumerated(calls)
    /\ StatusSuccess(enum)
    /\ Len(services) = 2
    /\ enum.list # services

\* C15: when disposal finishes, Close has been attempted on every service
\* handle the cache has held, those a later discovery replaced included.
C15_EveryOwnedHandleClosed ==
    op = "drop" =>
        \A h \in owned :
            \E i \in 1..Len(calls) :
                calls[i].name = "Close" /\ calls[i].mode = "service" /\ calls[i].arg = h

\* C16: a step of new, of an operation or of a handler in which a platform call
\* fails returns an error or absorbs the failure; it never panics.
C16_NoPanic ==
    (op \notin {"init", "drop"} /\ \E i \in 1..Len(calls) : ~calls[i].ok) =>
        (ret.tag \in {"Err", "Ok"} /\ pc # "panicked")

\* C17: is_connected reads the status from the device handle at every call and
\* returns Ok(true) when the read succeeds and the status is then Connected,
\* Ok(false) when it succeeds with another status, and Err(Other) when the read
\* fails; connect, when that read fails, returns the error without enumerating.
C17_IsConnectedReadsLiveStatus ==
    /\ op = "is_connected" =>
          /\ Len(calls) = 1
          /\ calls[1].name = "ConnectionStatus"
          /\ ret = IF calls[1].ok THEN OkBool(platStatus = "Connected") ELSE Err("Other")
    /\ op = "connect" =>
          /\ calls[1].name = "ConnectionStatus"
          /\ ~calls[1].ok => (ret = Err("Other") /\ ~Enumerated(calls))

\* is_connected has returned Ok(true) after the link came up out-of-band, the
\* notification of that change not yet delivered.
C17_Witness ==
    /\ op = "is_connected"
    /\ ret = OkBool(TRUE)
    /\ connPending > 0

\* C18: on_max_pdu_changed is first invoked only once the MaxPduSizeChanged
\* subscription has been registered, so never in a construction whose
\* subscription fails.
C18_InitialCallbackAfterSubscription ==
    pduSeen # 0 => pdu_change_token # 0

\* C19: for a constructed device with no notification left to deliver, the
\* last size passed to on_max_pdu_changed is the session's current size.
C19_ConsumerSizeIsCurrent ==
    (pc = "live" /\ pduPending = 0) => pduSeen = platPdu

\* C20: a discover_services or connect call that returns an error leaves the
\* cache and both registration tokens exactly as they were before the call.
C20_ErrorLeavesDeviceAsItWas ==
    [][(op' \in {"discover_services", "connect"} /\ ret'.tag = "Err") =>
          /\ services' = services
          /\ connection_token' = connection_token
          /\ pdu_change_token' = pdu_change_token]_vars

\* discover_services has returned an error because the list of a Success
\* enumeration could not be read, with services of an earlier discovery cached.
C20_Witness ==
    /\ op = "discover_services"
    /\ ret.tag = "Err"
    /\ StatusSuccess(enum)
    /\ ~enum.listOk
    /\ services # <<>>

====
